---- MODULE Spec2Model ----
(***************************************************************************)
(* RealTimeFeedService (src/assets/js/real-time-feed.js): the feed         *)
(* connections with their reconnect logic, the subscription table, the     *)
(* message pipeline (parse, feed record, handler, buffer, notify) and the  *)
(* per-feed message buffer.                                                *)
(*                                                                         *)
(* The browser runs every handler to completion on one event loop, so each *)
(* handler is one action.  The one exception is the forEach loop of        *)
(* notifySubscribers: every callback it invokes is a step of its own       *)
(* (CallbackStep), because a callback may call back into subscribe,        *)
(* unsubscribe or a handle; while the loop runs no other action is         *)
(* enabled.                                                                *)
(*                                                                         *)
(* The state and the actions are checked in several specifications, one    *)
(* per part of the service: Spec (the subscription table and the           *)
(* pipeline), SpecConn (the connections and their reconnects; it follows   *)
(* the connection of one feed, the market feed), SpecFrame (two feeds side *)
(* by side), SpecInit (init() run a second time), SpecPipe (the pipeline,  *)
(* message after message), SpecBuf (the buffer at its cap) and SpecGet     *)
(* (the buffer read back).  The feeds do not read each other's entries.    *)
(*                                                                         *)
(* BinanceAPI (src/unnamed/part_002) is a separate object with its own     *)
(* subscriptions and sockets; its state is the variable binance, and       *)
(* SpecBinance checks it.                                                  *)
(***************************************************************************)
EXTENDS Integers, Sequences, FiniteSets, TLC

(***************************************************************************)
(* Bounds of the model.                                                    *)
(***************************************************************************)
\* Two of the four feeds of initializeConnections are modelled.
Feeds == {"market", "news"}

\* The configured maxReconnectAttempts are 10 (market) and 5 (news) in
\* initializeConnections; the retry logic is the same for every value, and
\* the model runs it with small ones.
MaxAttemptsMarket == 1

MaxAttemptsNews == 1

\* WebSocket objects created per feed, the first one by init.
MaxSockets == 3

\* Messages that arrive in one behaviour of Spec or SpecConn.
MaxMsgs == 1

\* Clock ticks in one behaviour of SpecConn.
MaxTicks == 2

\* Clock ticks in one behaviour of SpecBuf: enough for a message to reach
\* maxAge.
MaxBufTicks == 5

\* Subscriber callbacks: 1..NumCallbacks.
NumCallbacks == 2

\* Messages that arrive after the initial fill in one behaviour of SpecBuf.
MaxBufMsgs == 3

\* Messages that arrive in one behaviour of SpecPipe.
MaxPipeMsgs == 2

(***************************************************************************)
(* Program constants.                                                      *)
(***************************************************************************)
maxBufferSize == 1000

maxAge == 300000

StaleAfter == 60000

\* One clock tick is the period of the buffer-cleaning timer.
TickMs == 60000

\* Date.now() at construction: any instant later than StaleAfter.
StartTime == 100000

Callbacks == 1..NumCallbacks

\* The (feed, channel) pairs that callers subscribe to: subscribeToSymbol
\* uses ('market', symbol), subscribeToNews uses ('news', 'breaking').
SubKeys == {<<"market", "BTCUSDT">>, <<"news", "breaking">>}

\* The subscriptions callers make: every callback on ('market', 'BTCUSDT'),
\* callback 1 on ('news', 'breaking').
Subscriptions ==
    {<<k, cb>> \in SubKeys \X Callbacks : k[1] = "market" \/ cb = 1}

\* The feed whose connection SpecConn follows.
ActiveFeeds == {"market"}

\* The channel field of an incoming message; "" stands for a message that
\* carries none.
MsgChannels == {"BTCUSDT", "breaking", ""}

VARIABLES
    feeds,              \* this.feeds: feed name -> record
    subscribers,        \* this.subscribers: key -> Set of callbacks
    buffer,             \* this.buffer: feed name -> array of messages
    connections,        \* this.connections: feed name -> socket (0: no entry)
    reconnectAttempts,  \* this.reconnectAttempts: feed name -> number
    sockets,            \* per feed, the readyState of every WebSocket created
    timers,             \* pending setTimeout reconnects per feed
    now,                \* Date.now()
    ticks,              \* clock ticks taken
    nrecv,              \* messages received so far (gives each its identity)
    handles,            \* the closures returned by subscribe
    notify,             \* the position of the notifySubscribers loop
    sent,               \* what the last step sent on the wire
    last,               \* the last step taken
    failures,           \* consecutive failed opens per feed since the last open
    binance             \* the BinanceAPI object: subscriptions, sockets, timers

vars == <<feeds, subscribers, buffer, connections, reconnectAttempts, sockets,
          timers, now, ticks, nrecv, handles, notify, sent, last, failures,
          binance>>

Range(s) == {s[i] : i \in 1..Len(s)}

\* lastMessage: null
NullMessage == [id |-> 0, channel |-> "", timestamp |-> 0]

FeedConfig(f) ==
    [name |-> f,
     maxReconnectAttempts |->
         IF f = "market" THEN MaxAttemptsMarket ELSE MaxAttemptsNews]

DefaultChannels(f) ==
    IF f = "market" THEN <<"BTCUSDT", "ETHUSDT", "XAUUSD", "EURUSD", "SPY">>
    ELSE IF f = "news" THEN <<"market", "analysis", "regulatory">>
    ELSE <<>>

NoStep == [op |-> "init", feed |-> "", channel |-> "", cb |-> 0, by |-> 0, sock |-> 0]

\* No notifySubscribers loop has run in the last handleMessage.
IdleNotify ==
    [phase |-> "idle", feed |-> "", channel |-> "", msg |-> 0, idx |-> 0,
     atStart |-> {}, delivered |-> {}, threw |-> {}, mutated |-> FALSE,
     aborted |-> FALSE]

\* The record connectFeed stores in this.feeds.
NewFeedRecord(ws) ==
    [websocket |-> ws, status |-> "connecting",
     lastMessage |-> NullMessage, messageCount |-> 0]

\* The streams of BinanceAPI that callers subscribe to, as subscribeToTicker
\* names them.
Streams == {"btcusdt@ticker", "ethusdt@ticker"}

\* A BinanceAPI object after its constructor: no subscriptions; no socket
\* and no timer exists yet.  `invoked` holds the callbacks the last message
\* event invoked, `step` the last step taken on the object.
BinanceInit ==
    [subscriptions |-> <<>>,
     sockets |-> [x \in Streams |-> <<>>],
     timers |-> [x \in Streams |-> <<>>],
     invoked |-> {},
     step |-> [op |-> "new", stream |-> "", cb |-> 0]]

\* ws.readyState of the s-th WebSocket created for feed f
ReadyState(f, s) == IF s = 0 THEN "NONE" ELSE sockets[f][s]

\* The state after the constructor and init(): connectFeed has run once for
\* every feed, nothing else has happened yet.
InitSockets == [f \in Feeds |-> <<"CONNECTING">>]

InitFeeds == [f \in Feeds |-> NewFeedRecord(1)]

Init ==
    /\ sockets = InitSockets
    /\ feeds = InitFeeds
    /\ subscribers = <<>>
    /\ buffer = [f \in Feeds |-> <<>>]
    /\ connections = [f \in Feeds |-> 0]
    /\ reconnectAttempts = [f \in Feeds |-> 0]
    /\ timers = [f \in Feeds |-> 0]
    /\ now = StartTime
    /\ ticks = 0
    /\ nrecv = 0
    /\ handles = {}
    /\ notify = IdleNotify
    /\ sent = <<>>
    /\ last = NoStep
    /\ failures = [f \in Feeds |-> 0]
    /\ binance = BinanceInit

Running == notify.phase = "running"

\* What `last` records of a step: the operation, its arguments, the callback
\* that made the call (0: none) and the socket the event belongs to.
Step(op, f, c, cb, by, s) ==
    [op |-> op, feed |-> f, channel |-> c, cb |-> cb, by |-> by, sock |-> s]

(***************************************************************************)
(* Connections: connectFeed, attemptReconnect, the socket events.          *)
(***************************************************************************)
\* attemptReconnect without its early return.
ReconnectNeverBlocked(attempts, f) == FALSE

\* attemptReconnect with > in the place of >= in its early return.
ReconnectBlockedOffByOne(attempts, f) ==
    attempts > FeedConfig(f).maxReconnectAttempts

\* attemptReconnect, line 109: the early return.
ReconnectBlocked(attempts, f) ==
    attempts >= FeedConfig(f).maxReconnectAttempts

\* attemptReconnect with one counter for all the feeds.
AttemptsAfterReconnectShared(att, f) ==
    IF ReconnectBlocked(att[f], f) THEN att
    ELSE [g \in DOMAIN att |-> att[g] + 1]

\* attemptReconnect that schedules the retry without counting it.
AttemptsAfterReconnectUncounted(att, f) == att

\* attemptReconnect, line 114: the counter after the call.
AttemptsAfterReconnect(att, f) ==
    IF ReconnectBlocked(att[f], f) THEN att ELSE [att EXCEPT ![f] = @ + 1]

\* attemptReconnect, lines 118-120: the timers after the call.
TimersAfterReconnect(att, tm, f) ==
    IF ReconnectBlocked(att[f], f) THEN tm ELSE [tm EXCEPT ![f] = @ + 1]

\* connectFeed: a new WebSocket, and a fresh record in this.feeds.  (The
\* constructor does not throw for the fixed wss:// addresses, so the catch
\* branch is not taken.)
ConnectFeed(f) ==
    /\ sockets' = [sockets EXCEPT ![f] = Append(@, "CONNECTING")]
    /\ feeds' = [feeds EXCEPT ![f] = NewFeedRecord(Len(sockets[f]) + 1)]

\* subscribeToDefaultChannels(ws, feedName): one subscribe per channel.
DefaultSubscribes(s, f) ==
    [i \in 1..Len(DefaultChannels(f)) |->
        [feed |-> f, sock |-> s, action |-> "subscribe",
         channel |-> DefaultChannels(f)[i]]]

\* init() called once more on the constructed service, as
\* EnterpriseCore.initializeModules does: initializeConnections runs
\* connectFeed for every feed again.  (The handlers are bound again and the
\* timers are set a second time; neither changes what a handler does.)
InitAgain ==
    /\ ~Running
    /\ \A f \in Feeds : Len(sockets[f]) < MaxSockets
    /\ sockets' = [f \in Feeds |-> Append(sockets[f], "CONNECTING")]
    /\ feeds' = [f \in Feeds |-> NewFeedRecord(Len(sockets[f]) + 1)]
    /\ sent' = <<>>
    /\ last' = Step("reinit", "", "", 0, 0, 0)
    /\ notify' = IdleNotify
    /\ UNCHANGED <<subscribers, buffer, connections, reconnectAttempts,
                   timers, now, ticks, nrecv, handles, failures>>
    /\ UNCHANGED binance

\* ws.onopen
OnOpen(f, s) ==
    /\ ~Running
    /\ sockets[f][s] = "CONNECTING"
    /\ sockets' = [sockets EXCEPT ![f][s] = "OPEN"]
    /\ connections' = [connections EXCEPT ![f] = s]
    /\ reconnectAttempts' = [reconnectAttempts EXCEPT ![f] = 0]
    /\ sent' = DefaultSubscribes(s, f)
    /\ failures' = [failures EXCEPT ![f] = 0]
    /\ last' = Step("open", f, "", 0, 0, s)
    /\ notify' = IdleNotify
    /\ UNCHANGED <<feeds, subscribers, buffer, timers, now, ticks, nrecv,
                   handles>>
    /\ UNCHANGED binance

\* ws.onclose: the socket failed to open ("fail"), or was open and closed
\* ("close").
OnClose(f, s) ==
    /\ ~Running
    /\ sockets[f][s] \in {"CONNECTING", "OPEN"}
    /\ sockets' = [sockets EXCEPT ![f][s] = "CLOSED"]
    /\ connections' = [connections EXCEPT ![f] = 0]
    /\ reconnectAttempts' = AttemptsAfterReconnect(reconnectAttempts, f)
    /\ timers' = TimersAfterReconnect(reconnectAttempts, timers, f)
    /\ failures' = IF sockets[f][s] = "CONNECTING"
                   THEN [failures EXCEPT ![f] = @ + 1] ELSE failures
    /\ sent' = <<>>
    /\ last' = Step(IF sockets[f][s] = "CONNECTING" THEN "fail" ELSE "close",
                    f, "", 0, 0, s)
    /\ notify' = IdleNotify
    /\ UNCHANGED <<feeds, subscribers, buffer, now, ticks, nrecv, handles>>
    /\ UNCHANGED binance

\* ws.onerror, lines 88-90: the handler logs the error and does nothing
\* else; the socket is as it was until its close event, if one follows.
OnError(f, s) ==
    /\ ~Running
    /\ sockets[f][s] \in {"CONNECTING", "OPEN"}
    /\ sent' = <<>>
    /\ last' = Step("error", f, "", 0, 0, s)
    /\ notify' = IdleNotify
    /\ UNCHANGED <<feeds, subscribers, buffer, connections, reconnectAttempts,
                   sockets, timers, now, ticks, nrecv, handles, failures>>
    /\ UNCHANGED binance

\* The setTimeout callback of attemptReconnect: connectFeed(config).
TimerFire(f) ==
    /\ ~Running
    /\ timers[f] > 0
    /\ Len(sockets[f]) < MaxSockets
    /\ timers' = [timers EXCEPT ![f] = @ - 1]
    /\ ConnectFeed(f)
    /\ sent' = <<>>
    /\ last' = Step("timer", f, "", 0, 0, Len(sockets[f]) + 1)
    /\ notify' = IdleNotify
    /\ UNCHANGED <<subscribers, buffer, connections, reconnectAttempts, now,
                   ticks, nrecv, handles, failures>>
    /\ UNCHANGED binance

\* checkConnectionHealth, line 455-457
Stale(f) == now - feeds[f].lastMessage.timestamp > StaleAfter

\* checkConnectionHealth, line 461
HealthReconnects(f) ==
    /\ Stale(f)
    /\ feeds[f].websocket # 0
    /\ ReadyState(f, feeds[f].websocket) # "OPEN"

\* checkConnectionHealth: the loop over this.feeds; the feeds do not read
\* each other's entries, so the order of the loop does not matter.
CheckConnectionHealth ==
    /\ ~Running
    /\ reconnectAttempts' =
          [f \in Feeds |->
              IF HealthReconnects(f)
              THEN AttemptsAfterReconnect(reconnectAttempts, f)[f]
              ELSE reconnectAttempts[f]]
    /\ timers' =
          [f \in Feeds |->
              IF HealthReconnects(f)
              THEN TimersAfterReconnect(reconnectAttempts, timers, f)[f]
              ELSE timers[f]]
    /\ sent' = <<>>
    /\ last' = Step("health", "", "", 0, 0, 0)
    /\ notify' = IdleNotify
    /\ UNCHANGED <<feeds, subscribers, buffer, connections, sockets, now,
                   ticks, nrecv, handles, failures>>
    /\ UNCHANGED binance

\* Time passes.
Tick ==
    /\ ~Running
    /\ ticks' = ticks + 1
    /\ now' = now + TickMs
    /\ sent' = <<>>
    /\ last' = Step("tick", "", "", 0, 0, 0)
    /\ notify' = IdleNotify
    /\ UNCHANGED <<feeds, subscribers, buffer, connections, reconnectAttempts,
                   sockets, timers, nrecv, handles, failures>>
    /\ UNCHANGED binance

(***************************************************************************)
(* The subscription table.  A JavaScript Set keeps its elements in         *)
(* insertion order: it is a sequence without repetitions.                  *)
(***************************************************************************)
\* Set.prototype.add
SetAdd(s, x) == IF x \in Range(s) THEN s ELSE Append(s, x)

\* Set.prototype.delete
SetDelete(s, x) == SelectSeq(s, LAMBDA y : y # x)

\* Map.prototype.set
MapSet(m, k, v) == [x \in DOMAIN m \cup {k} |-> IF x = k THEN v ELSE m[x]]

\* `${feedName}:${channel}`; feed names hold no colon, so the pair is the key.
Key(f, c) == <<f, c>>

\* feed && feed.websocket && feed.websocket.readyState === WebSocket.OPEN
FeedIsOpen(f) ==
    /\ f \in DOMAIN feeds
    /\ feeds[f].websocket # 0
    /\ ReadyState(f, feeds[f].websocket) = "OPEN"

WireMsg(f, action, c) ==
    <<[feed |-> f, sock |-> feeds[f].websocket, action |-> action,
       channel |-> c]>>

\* subscribe, lines 471-475: the table after the call.
SubscribeTable(subs, f, c, cb) ==
    LET key == Key(f, c)
        old == IF key \in DOMAIN subs THEN subs[key] ELSE <<>>
    IN  MapSet(subs, key, SetAdd(old, cb))

\* subscribe, lines 478-484: what the call sends.
SubscribeSends(subs, f, c, cb) ==
    IF FeedIsOpen(f) THEN WireMsg(f, "subscribe", c) ELSE <<>>

\* unsubscribe without its delete.
UnsubscribeTableKeeps(subs, f, c, cb) == subs

\* unsubscribe, lines 497-500: the table after the call.
UnsubscribeTable(subs, f, c, cb) ==
    LET key == Key(f, c) IN
    IF key \in DOMAIN subs
    THEN [subs EXCEPT ![key] = SetDelete(@, cb)]
    ELSE subs

\* unsubscribe, lines 503-510: what the call sends.
UnsubscribeSends(subs, f, c, cb) ==
    LET key == Key(f, c) IN
    IF /\ key \in DOMAIN subs
       /\ Len(SetDelete(subs[key], cb)) = 0
       /\ FeedIsOpen(f)
    THEN WireMsg(f, "unsubscribe", c)
    ELSE <<>>

\* The closure returned by subscribe, lines 487-492: the table after a call.
HandleTable(subs, f, c, cb) ==
    LET key == Key(f, c) IN
    IF key \in DOMAIN subs
    THEN [subs EXCEPT ![key] = SetDelete(@, cb)]
    ELSE subs

\* The closure returned by subscribe sends nothing.
HandleSends(subs, f, c, cb) == <<>>

\* The calls a caller, or a callback, can make into the table.
Calls ==
    {[op |-> o, feed |-> x[1][1], channel |-> x[1][2], cb |-> x[2]] :
        o \in {"subscribe", "unsubscribe", "handle"}, x \in Subscriptions}

\* A handle can be invoked once subscribe has returned it.
CallAllowed(call) ==
    call.op = "handle" =>
        <<call.feed, call.channel, call.cb>> \in handles

TableAfter(subs, call) ==
    IF call.op = "subscribe"
    THEN SubscribeTable(subs, call.feed, call.channel, call.cb)
    ELSE IF call.op = "unsubscribe"
    THEN UnsubscribeTable(subs, call.feed, call.channel, call.cb)
    ELSE HandleTable(subs, call.feed, call.channel, call.cb)

SendsOf(subs, call) ==
    IF call.op = "subscribe"
    THEN SubscribeSends(subs, call.feed, call.channel, call.cb)
    ELSE IF call.op = "unsubscribe"
    THEN UnsubscribeSends(subs, call.feed, call.channel, call.cb)
    ELSE HandleSends(subs, call.feed, call.channel, call.cb)

HandlesAfter(call) ==
    IF call.op = "subscribe"
    THEN handles \cup {<<call.feed, call.channel, call.cb>>}
    ELSE handles

\* subscribe, unsubscribe or a handle, called from outside a notification.
ApiCall(call) ==
    /\ ~Running
    /\ CallAllowed(call)
    /\ subscribers' = TableAfter(subscribers, call)
    /\ sent' = SendsOf(subscribers, call)
    /\ handles' = HandlesAfter(call)
    /\ last' = Step(call.op, call.feed, call.channel, call.cb, 0, 0)
    /\ notify' = IdleNotify
    /\ UNCHANGED <<feeds, buffer, connections, reconnectAttempts, sockets,
                   timers, now, ticks, nrecv, failures>>
    /\ UNCHANGED binance

Subscribe(f, c, cb) ==
    ApiCall([op |-> "subscribe", feed |-> f, channel |-> c, cb |-> cb])

Unsubscribe(f, c, cb) ==
    ApiCall([op |-> "unsubscribe", feed |-> f, channel |-> c, cb |-> cb])

InvokeHandle(f, c, cb) ==
    ApiCall([op |-> "handle", feed |-> f, channel |-> c, cb |-> cb])

(***************************************************************************)
(* The message pipeline: handleMessage, addToBuffer, notifySubscribers.    *)
(***************************************************************************)
\* What arrives on a socket: text that JSON.parse rejects ("malformed"), a
\* message the feed's handler processes ("valid"), a message on which the
\* feed's handler throws ("handlerThrows"), or JSON that is no message of
\* the feed, such as {} or an object without a type, which the handler
\* passes over ("invalid").  A message carries a channel or none, and a
\* timestamp of its own (the sender's clock) or none.
RawMessages ==
    {[kind |-> "malformed", channel |-> "", stamped |-> FALSE]} \cup
    {[kind |-> k, channel |-> c, stamped |-> b] :
        k \in {"valid", "handlerThrows", "invalid"},
        c \in MsgChannels, b \in BOOLEAN}

\* JSON.parse(data), for data that parses
Parsed(m) ==
    [id |-> nrecv + 1, channel |-> m.channel,
     timestamp |-> IF m.stamped THEN now ELSE 0]

\* addToBuffer with a splice that cuts the newest entries instead of the oldest.
AddToBufferKeepsOldest(buf, message) ==
    LET pushed == Append(buf, [message EXCEPT !.timestamp = now])
    IN  IF Len(pushed) > maxBufferSize
        THEN SubSeq(pushed, 1, maxBufferSize)
        ELSE pushed

\* addToBuffer with unshift in the place of push.
AddToBufferUnshift(buf, message) ==
    LET pushed == <<[message EXCEPT !.timestamp = now]>> \o buf
        n == Len(pushed)
    IN  IF n > maxBufferSize
        THEN SubSeq(pushed, n - maxBufferSize + 1, n)
        ELSE pushed

\* addToBuffer without its splice.
AddToBufferNoCap(buf, message) ==
    Append(buf, [message EXCEPT !.timestamp = now])

\* addToBuffer: push, then splice off the front what exceeds the cap.
AddToBuffer(buf, message) ==
    LET pushed == Append(buf, [message EXCEPT !.timestamp = now])
        n == Len(pushed)
    IN  IF n > maxBufferSize
        THEN SubSeq(pushed, n - maxBufferSize + 1, n)
        ELSE pushed

\* notifySubscribers, line 516: message.channel || 'default'
NotifyChannel(message) ==
    IF message.channel = "" THEN "default" ELSE message.channel

\* notifySubscribers, lines 517-520: the loop starts over the live Set.
StartNotify(f, message) ==
    LET key == Key(f, NotifyChannel(message))
        subs == IF key \in DOMAIN subscribers THEN subscribers[key] ELSE <<>>
    IN  [phase |-> IF Len(subs) > 0 THEN "running" ELSE "done",
         feed |-> f, channel |-> NotifyChannel(message), msg |-> message.id,
         idx |-> 0, atStart |-> Range(subs), delivered |-> {}, threw |-> {},
         mutated |-> FALSE, aborted |-> FALSE]

\* handleMessage with a catch branch that gives the connection up.
DropMessageClosesSocket(f, s, m) ==
    /\ last' = Step("dropped", f, "", 0, 0, s)
    /\ notify' = IdleNotify
    /\ sockets' = [sockets EXCEPT ![f][s] = "CLOSED"]
    /\ connections' = [connections EXCEPT ![f] = 0]
    /\ UNCHANGED <<feeds, buffer, reconnectAttempts, timers, failures>>

\* handleMessage, lines 153 and 174-176: JSON.parse throws, the catch branch
\* logs, and nothing else happens.
DropMessage(f, s, m) ==
    /\ last' = Step("dropped", f, "", 0, 0, s)
    /\ notify' = IdleNotify
    /\ UNCHANGED <<feeds, buffer, sockets, connections, reconnectAttempts,
                   timers, failures>>

\* handleMessage, lines 154-172: the feed record, the handler, the buffer,
\* the subscribers; a throw of the handler ends the try block.
ProcessMessage(f, s, m) ==
    LET message == Parsed(m) IN
    /\ feeds' = [feeds EXCEPT ![f].lastMessage = message,
                              ![f].messageCount = @ + 1,
                              ![f].status = "connected"]
    /\ IF m.kind = "handlerThrows"
       THEN /\ last' = Step("handlerThrew", f, m.channel, 0, 0, s)
            /\ notify' = IdleNotify
            /\ UNCHANGED buffer
       ELSE /\ last' = Step(IF m.kind = "valid" THEN "message" ELSE "invalid",
                            f, m.channel, 0, 0, s)
            /\ buffer' = [buffer EXCEPT ![f] = AddToBuffer(@, message)]
            /\ notify' = StartNotify(f, message)
    /\ UNCHANGED <<sockets, connections, reconnectAttempts, timers, failures>>

\* ws.onmessage on socket s: handleMessage(config.name, event.data)
HandleMessage(f, s, m) ==
    /\ ~Running
    /\ sockets[f][s] = "OPEN"
    /\ nrecv' = nrecv + 1
    /\ sent' = <<>>
    /\ IF m.kind = "malformed"
       THEN DropMessage(f, s, m)
       ELSE ProcessMessage(f, s, m)
    /\ UNCHANGED <<subscribers, now, ticks, handles>>
    /\ UNCHANGED binance

\* What a callback does when it is invoked: it returns, it throws, or it
\* makes one call into the table and returns.
Behaviours ==
    {[op |-> o, feed |-> "", channel |-> "", cb |-> 0] :
        o \in {"return", "throw"}} \cup Calls

IsCall(b) == b.op \in {"subscribe", "unsubscribe", "handle"}

\* The loop without its try/catch: a throw ends it.
LoopAfterCallbackNoCatch(thrown, idx, len) ==
    IF thrown THEN [phase |-> "done", aborted |-> TRUE]
    ELSE [phase |-> IF idx < len THEN "running" ELSE "done", aborted |-> FALSE]

\* notifySubscribers, lines 521-527: after a callback has returned or thrown,
\* forEach goes on with the next element of the Set, if there is one.

LoopAfterCallback(thrown, idx, len) ==
    [phase |-> IF idx < len THEN "running" ELSE "done", aborted |-> FALSE]

\* Set.prototype.forEach visits the elements in insertion order, skips the
\* ones deleted before their turn and visits the ones added during the loop:
\* the elements already visited are those of the visited prefix that remain.
VisitedAfter(seq, idx, after) ==
    Cardinality({i \in 1..idx : seq[i] \in Range(after)})

\* One iteration of the forEach of notifySubscribers: the next callback of
\* the Set is invoked and behaves as b.
CallbackStep(b) ==
    LET key == Key(notify.feed, notify.channel)
        seq == subscribers[key]
        cb == seq[notify.idx + 1]
        table == IF IsCall(b) THEN TableAfter(subscribers, b) ELSE subscribers
        idx == VisitedAfter(seq, notify.idx + 1, table[key])
        loop == LoopAfterCallback(b.op = "throw", idx, Len(table[key]))
    IN
    /\ Running
    /\ IsCall(b) => CallAllowed(b)
    /\ subscribers' = table
    /\ sent' = IF IsCall(b) THEN SendsOf(subscribers, b) ELSE <<>>
    /\ handles' = IF IsCall(b) THEN HandlesAfter(b) ELSE handles
    /\ notify' = [notify EXCEPT
                    !.phase = loop.phase,
                    !.aborted = loop.aborted,
                    !.idx = idx,
                    !.delivered = @ \cup {cb},
                    !.threw = IF b.op = "throw" THEN @ \cup {cb} ELSE @,
                    !.mutated = @ \/ table[key] # seq]
    /\ last' = Step(b.op, b.feed, b.channel, b.cb, cb, 0)
    /\ UNCHANGED <<feeds, buffer, connections, reconnectAttempts, sockets,
                   timers, now, ticks, nrecv, failures>>
    /\ UNCHANGED binance

\* cleanBuffer with a filter that keeps the entries of age maxAge.
KeepYoungInclusive(messages) ==
    SelectSeq(messages, LAMBDA msg : now - msg.timestamp <= maxAge)

\* cleanBuffer, line 422-424: messages.filter(...)
KeepYoung(messages) ==
    SelectSeq(messages, LAMBDA msg : now - msg.timestamp < maxAge)

\* cleanBuffer, run by the setInterval of startBufferManagement
CleanBuffer ==
    /\ ~Running
    /\ buffer' = [f \in Feeds |-> KeepYoung(buffer[f])]
    /\ sent' = <<>>
    /\ last' = Step("clean", "", "", 0, 0, 0)
    /\ notify' = IdleNotify
    /\ UNCHANGED <<feeds, subscribers, connections, reconnectAttempts,
                   sockets, timers, now, ticks, nrecv, handles, failures>>
    /\ UNCHANGED binance

(***************************************************************************)
(* The public queries.                                                     *)
(***************************************************************************)
getConnectionStatus(f) ==
    IF f \in DOMAIN feeds THEN feeds[f].status ELSE "disconnected"

\* Array.prototype.slice(start) of a sequence: a negative start counts from
\* the end, and -0 is 0.
SliceFrom(messages, start) ==
    LET n == Len(messages)
        from == IF start < 0
                THEN (IF n + start > 0 THEN n + start ELSE 0)
                ELSE (IF start < n THEN start ELSE n)
    IN  SubSeq(messages, from + 1, n)

\* getBuffer(feedName, limit): messages.slice(-limit)
getBuffer(f, limit) ==
    SliceFrom(IF f \in DOMAIN buffer THEN buffer[f] ELSE <<>>, 0 - limit)

(***************************************************************************)
(* BinanceAPI (src/unnamed/part_002): subscribe, unsubscribe and the       *)
(* events of the sockets subscribe creates.                                *)
(***************************************************************************)
\* The variables of RealTimeFeedService, which BinanceAPI does not touch.
feedVars == <<feeds, subscribers, buffer, connections, reconnectAttempts,
              sockets, timers, now, ticks, nrecv, handles, notify, sent, last,
              failures>>

BinanceStep(op, stream, cb) == [op |-> op, stream |-> stream, cb |-> cb]

\* subscribe(stream, callback): a stream that has an entry gets the callback
\* added to its Set; otherwise a WebSocket is created whose onmessage and
\* onclose hold this callback, and the entry is set to new Set([callback]).
BinanceSubscribed(b, stream, cb) ==
    IF stream \in DOMAIN b.subscriptions
    THEN [b EXCEPT !.subscriptions[stream] = SetAdd(@, cb)]
    ELSE [b EXCEPT
            !.sockets[stream] = Append(@, [state |-> "OPEN", callback |-> cb]),
            !.subscriptions = MapSet(@, stream, <<cb>>)]

BinanceSubscribe(stream, cb) ==
    /\ binance' = [BinanceSubscribed(binance, stream, cb) EXCEPT
                     !.invoked = {},
                     !.step = BinanceStep("subscribe", stream, cb)]
    /\ UNCHANGED feedVars

\* unsubscribe(stream, callback)
BinanceUnsubscribe(stream, cb) ==
    /\ binance' = [binance EXCEPT
                     !.subscriptions =
                         IF stream \in DOMAIN @
                         THEN [@ EXCEPT ![stream] = SetDelete(@, cb)]
                         ELSE @,
                     !.invoked = {},
                     !.step = BinanceStep("unsubscribe", stream, cb)]
    /\ UNCHANGED feedVars

\* The callbacks ws.onmessage of a socket invokes: callback(data), with the
\* callback of the subscribe call that created the socket.
BinanceInvoked(b, stream, s) == {b.sockets[stream][s].callback}

\* ws.onmessage of the s-th socket of a stream
BinanceOnMessage(stream, s) ==
    /\ binance.sockets[stream][s].state = "OPEN"
    /\ binance' = [binance EXCEPT
                     !.invoked = BinanceInvoked(binance, stream, s),
                     !.step = BinanceStep("message", stream, 0)]
    /\ UNCHANGED feedVars

\* ws.onclose of the s-th socket of a stream: setTimeout(() =>
\* this.subscribe(stream, callback), 5000)
BinanceOnClose(stream, s) ==
    /\ binance.sockets[stream][s].state = "OPEN"
    /\ binance' = [binance EXCEPT
                     !.sockets[stream][s].state = "CLOSED",
                     !.timers[stream] =
                         Append(@, binance.sockets[stream][s].callback),
                     !.invoked = {},
                     !.step = BinanceStep("close", stream, 0)]
    /\ UNCHANGED feedVars

\* The timer of onclose fires: this.subscribe(stream, callback)
BinanceTimerFire(stream) ==
    /\ Len(binance.timers[stream]) > 0
    /\ LET cb == Head(binance.timers[stream])
           b == [binance EXCEPT !.timers[stream] = Tail(@)]
       IN  binance' = [BinanceSubscribed(b, stream, cb) EXCEPT
                         !.invoked = {},
                         !.step = BinanceStep("timer", stream, cb)]
    /\ UNCHANGED feedVars

(***************************************************************************)
(* The specifications.                                                     *)
(***************************************************************************)
\* Spec: the table and the pipeline.  Messages are valid and carry a channel.
TableMessages ==
    {m \in RawMessages :
        m.kind = "valid" /\ m.stamped /\ m.channel \in {"BTCUSDT", "breaking"}}

Next ==
    \/ \E f \in Feeds, s \in 1..MaxSockets :
          s <= Len(sockets[f]) /\ OnOpen(f, s)
    \/ \E f \in Feeds, s \in 1..MaxSockets :
          s <= Len(sockets[f]) /\ OnClose(f, s)
    \/ \E x \in Subscriptions : Subscribe(x[1][1], x[1][2], x[2])
    \/ \E x \in Subscriptions : Unsubscribe(x[1][1], x[1][2], x[2])
    \/ \E x \in Subscriptions : InvokeHandle(x[1][1], x[1][2], x[2])
    \/ \E f \in Feeds, s \in 1..MaxSockets, m \in TableMessages :
          s <= Len(sockets[f]) /\ nrecv < MaxMsgs /\ HandleMessage(f, s, m)
    \/ \E b \in Behaviours : CallbackStep(b)

Spec == Init /\ [][Next]_vars

\* SpecConn: the connections.  Messages carry no channel.
ConnMessages ==
    {m \in RawMessages : m.kind = "valid" /\ m.channel = ""}

NextConn ==
    \/ \E f \in ActiveFeeds, s \in 1..MaxSockets :
          s <= Len(sockets[f]) /\ OnOpen(f, s)
    \/ \E f \in ActiveFeeds, s \in 1..MaxSockets :
          s <= Len(sockets[f]) /\ OnClose(f, s)
    \/ \E f \in ActiveFeeds : TimerFire(f)
    \/ CheckConnectionHealth
    \/ ticks < MaxTicks /\ Tick
    \/ \E f \in ActiveFeeds, s \in 1..MaxSockets, m \in ConnMessages :
          s <= Len(sockets[f]) /\ nrecv < MaxMsgs /\ HandleMessage(f, s, m)

SpecConn == Init /\ [][NextConn]_vars

\* SpecBuf: the buffer at its cap.  The behaviours start after the market
\* feed has opened and received InitFill valid messages, two short of the
\* cap, within the first tick of the clock; messages, cleaning passes and
\* clock ticks follow in any order.
InitFill == maxBufferSize - 2

FilledMessage(i) == [id |-> i, channel |-> "", timestamp |-> StartTime]

InitBuf ==
    /\ sockets = [f \in Feeds |->
                    IF f = "market" THEN <<"OPEN">> ELSE <<"CONNECTING">>]
    /\ feeds = [f \in Feeds |->
                  IF f = "market"
                  THEN [websocket |-> 1, status |-> "connected",
                        lastMessage |-> FilledMessage(InitFill),
                        messageCount |-> InitFill]
                  ELSE NewFeedRecord(1)]
    /\ subscribers = <<>>
    /\ buffer = [f \in Feeds |->
                   IF f = "market"
                   THEN [i \in 1..InitFill |-> FilledMessage(i)]
                   ELSE <<>>]
    /\ connections = [f \in Feeds |-> IF f = "market" THEN 1 ELSE 0]
    /\ reconnectAttempts = [f \in Feeds |-> 0]
    /\ timers = [f \in Feeds |-> 0]
    /\ now = StartTime
    /\ ticks = 0
    /\ nrecv = InitFill
    /\ handles = {}
    /\ notify = [IdleNotify EXCEPT !.phase = "done", !.feed = "market",
                                   !.channel = "default", !.msg = InitFill]
    /\ sent = <<>>
    /\ last = Step("message", "market", "", 0, 0, 1)
    /\ failures = [f \in Feeds |-> 0]
    /\ binance = BinanceInit

BufMessages ==
    {m \in RawMessages : m.channel = "" /\ (m.stamped \/ m.kind = "malformed")}

NextBuf ==
    \/ \E m \in BufMessages :
          nrecv < InitFill + MaxBufMsgs /\ HandleMessage("market", 1, m)
    \/ CleanBuffer
    \/ ticks < MaxBufTicks /\ Tick

SpecBuf == InitBuf /\ [][NextBuf]_vars

\* SpecGet: the buffer read back.  The behaviours start as those of SpecBuf;
\* every message that follows is valid, and no cleaning pass runs.
GetMessages == {m \in RawMessages : m.kind = "valid" /\ m.channel = ""}

NextGet ==
    \/ \E m \in GetMessages :
          nrecv < InitFill + MaxBufMsgs /\ HandleMessage("market", 1, m)
    \/ ticks < MaxBufTicks /\ Tick

SpecGet == InitBuf /\ [][NextGet]_vars

\* SpecFrame: two feeds side by side.  Both open, close and receive
\* messages, callers subscribe, and each feed goes through its reconnects
\* until its attempts are used up.
FrameMessages ==
    {m \in RawMessages : m.kind = "valid" /\ m.stamped /\ m.channel = ""}

NextFrame ==
    \/ \E f \in Feeds, s \in 1..MaxSockets :
          s <= Len(sockets[f]) /\ OnOpen(f, s)
    \/ \E f \in Feeds, s \in 1..MaxSockets :
          s <= Len(sockets[f]) /\ OnClose(f, s)
    \/ \E f \in Feeds : TimerFire(f)
    \/ \E f \in Feeds, s \in 1..MaxSockets, m \in FrameMessages :
          s <= Len(sockets[f]) /\ nrecv < MaxMsgs /\ HandleMessage(f, s, m)
    \/ \E x \in Subscriptions : Subscribe(x[1][1], x[1][2], x[2])

SpecFrame == Init /\ [][NextFrame]_vars

\* SpecInit: the service initialised again while it runs, with the socket
\* events of every feed (open, close, error) and the reconnects of the
\* market feed.
NextInit ==
    \/ InitAgain
    \/ \E f \in Feeds, s \in 1..MaxSockets :
          s <= Len(sockets[f]) /\ OnOpen(f, s)
    \/ \E f \in Feeds, s \in 1..MaxSockets :
          s <= Len(sockets[f]) /\ OnClose(f, s)
    \/ \E f \in Feeds, s \in 1..MaxSockets :
          s <= Len(sockets[f]) /\ OnError(f, s)
    \/ \E f \in ActiveFeeds : TimerFire(f)

SpecInit == Init /\ [][NextInit]_vars

\* SpecBinance: a BinanceAPI object, its callers and its sockets.
NextBinance ==
    \/ \E x \in Streams, cb \in Callbacks : BinanceSubscribe(x, cb)
    \/ \E x \in Streams, cb \in Callbacks : BinanceUnsubscribe(x, cb)
    \/ \E x \in Streams, s \in 1..MaxSockets :
          s <= Len(binance.sockets[x]) /\ BinanceOnMessage(x, s)
    \/ \E x \in Streams, s \in 1..MaxSockets :
          s <= Len(binance.sockets[x]) /\ BinanceOnClose(x, s)
    \/ \E x \in Streams : BinanceTimerFire(x)

SpecBinance == Init /\ [][NextBinance]_vars

\* SpecPipe: the pipeline, message after message.  The behaviours start
\* after the market feed has opened and every callback has subscribed to
\* ('market', 'BTCUSDT'), in the order of their numbers; messages of every
\* kind follow, and the callbacks behave as they like.
InitPipe ==
    /\ sockets = [f \in Feeds |->
                    IF f = "market" THEN <<"OPEN">> ELSE <<"CONNECTING">>]
    /\ feeds = InitFeeds
    /\ subscribers =
          MapSet(<<>>, Key("market", "BTCUSDT"), [i \in Callbacks |-> i])
    /\ buffer = [f \in Feeds |-> <<>>]
    /\ connections = [f \in Feeds |-> IF f = "market" THEN 1 ELSE 0]
    /\ reconnectAttempts = [f \in Feeds |-> 0]
    /\ timers = [f \in Feeds |-> 0]
    /\ now = StartTime
    /\ ticks = 0
    /\ nrecv = 0
    /\ handles = {<<"market", "BTCUSDT", cb>> : cb \in Callbacks}
    /\ notify = IdleNotify
    /\ sent = <<[feed |-> "market", sock |-> 1, action |-> "subscribe",
                 channel |-> "BTCUSDT"]>>
    /\ last = Step("subscribe", "market", "BTCUSDT", NumCallbacks, 0, 0)
    /\ failures = [f \in Feeds |-> 0]
    /\ binance = BinanceInit

PipeMessages ==
    {m \in RawMessages :
        \/ m.kind = "malformed"
        \/ m.stamped /\ m.channel \in {"BTCUSDT", ""}}

NextPipe ==
    \/ \E m \in PipeMessages :
          nrecv < MaxPipeMsgs /\ HandleMessage("market", 1, m)
    \/ \E b \in Behaviours : CallbackStep(b)

SpecPipe == InitPipe /\ [][NextPipe]_vars

(***************************************************************************)
(* The claims about the subscription table (Spec).                         *)
(***************************************************************************)
\* The callbacks a table holds for (f, c).
SubscribedIn(subs, f, c) ==
    IF <<f, c>> \in DOMAIN subs THEN Range(subs[<<f, c>>]) ELSE {}

SubscribedTo(f, c) == SubscribedIn(subscribers, f, c)

\* The wire messages of one kind that a step sent for (f, c).
WireCount(out, f, action, c) ==
    Cardinality({i \in 1..Len(out) :
        out[i].feed = f /\ out[i].action = action /\ out[i].channel = c})

\* C1: while the feed is open, a subscribe call sends one wire-level
\* subscribe when it takes the subscriber set of its (feed, channel) from
\* empty to non-empty, and none when the set already had a subscriber.
C1_SubscribeOncePerFirstSubscriber ==
    [][last'.op = "subscribe" /\ FeedIsOpen(last'.feed) =>
         WireCount(sent', last'.feed, "subscribe", last'.channel) =
             IF SubscribedTo(last'.feed, last'.channel) = {} THEN 1 ELSE 0]_vars

\* C2: while the feed is open, a subscribe or unsubscribe call sends one
\* wire-level unsubscribe when it takes the subscriber set of its (feed,
\* channel) from non-empty to empty, and none otherwise.
C2_UnsubscribeOncePerLastSubscriber ==
    [][last'.op \in {"subscribe", "unsubscribe"} /\ FeedIsOpen(last'.feed) =>
         WireCount(sent', last'.feed, "unsubscribe", last'.channel) =
             IF /\ SubscribedTo(last'.feed, last'.channel) # {}
                /\ SubscribedIn(subscribers', last'.feed, last'.channel) = {}
             THEN 1 ELSE 0]_vars

\* C3: invoking the handle returned by subscribe(feed, channel, callback)
\* leaves the table, and sends on the wire, exactly what
\* unsubscribe(feed, channel, callback) would from the same state.
C3_HandleIsUnsubscribe ==
    [][last'.op = "handle" =>
         /\ subscribers' = UnsubscribeTable(subscribers, last'.feed,
                                            last'.channel, last'.cb)
         /\ sent' = UnsubscribeSends(subscribers, last'.feed,
                                     last'.channel, last'.cb)]_vars

\* C4: the table holds no key whose subscriber set is empty.
C4_NoEmptySubscriberSet ==
    \A k \in DOMAIN subscribers : Len(subscribers[k]) > 0

\* C5: a notification invokes exactly the callbacks that were subscribed to
\* the message's (feed, channel) when it started, whatever the callbacks do
\* to the table during the call.
C5_NotifyUsesSnapshot ==
    notify.phase = "done" => notify.delivered = notify.atStart

\* The feed and the channel of the message whose notification has just
\* ended: the message is the last one its feed has recorded.
NotifiedFeed == CHOOSE f \in Feeds : feeds[f].lastMessage.id = notify.msg

NotifiedChannel ==
    LET c == feeds[NotifiedFeed].lastMessage.channel
    IN  IF c = "" THEN "default" ELSE c

\* C6: a callback that throws stays subscribed and does not end the
\* notification: the exception does not leave notifySubscribers, and when
\* the notification ends every callback subscribed to the message's (feed,
\* channel) has been invoked with the message.
C6_ThrowingCallbackIsContained ==
    /\ [](notify.phase = "done" =>
            /\ ~notify.aborted
            /\ SubscribedTo(NotifiedFeed, NotifiedChannel) \subseteq
                   notify.delivered)
    /\ [][last'.op = "throw" => subscribers' = subscribers]_vars

\* C6 happens: callback 1 threw, and callback 2, which comes after it in the
\* Set, was invoked all the same; both are still subscribed.
C6_Witness ==
    /\ notify.phase = "done"
    /\ notify.threw = {1}
    /\ notify.delivered = {1, 2}
    /\ ~notify.mutated
    /\ subscribers[<<notify.feed, notify.channel>>] = <<1, 2>>

\* C7: a message is delivered to exactly the callbacks subscribed to its
\* (feed, channel): every callback invoked is subscribed to it when it is
\* invoked, every callback subscribed to it when the notification ends has
\* been invoked, and without changes to the table during the call the two
\* sets are the same; a callback taken out by unsubscribe or by its handle
\* is no longer subscribed.
C7_DeliveredToCurrentSubscribers ==
    /\ [](notify.phase = "done" =>
            /\ SubscribedTo(NotifiedFeed, NotifiedChannel) \subseteq
                   notify.delivered
            /\ ~notify.mutated =>
                   notify.delivered =
                       SubscribedTo(NotifiedFeed, NotifiedChannel))
    /\ [][last'.by # 0 =>
            last'.by \in SubscribedTo(NotifiedFeed, NotifiedChannel)]_vars
    /\ [][last'.op \in {"unsubscribe", "handle"} =>
            last'.cb \notin
                SubscribedIn(subscribers', last'.feed, last'.channel)]_vars

\* C7 happens: callbacks 1 and 2 subscribed to ('market', 'BTCUSDT'),
\* callback 1 was taken out again, callback 1 is subscribed to ('news',
\* 'breaking'), and a message for ('market', 'BTCUSDT') went to callback 2
\* only.
C7_Witness ==
    /\ notify.phase = "done"
    /\ notify.feed = "market"
    /\ notify.channel = "BTCUSDT"
    /\ <<"market", "BTCUSDT", 1>> \in handles
    /\ SubscribedTo("market", "BTCUSDT") = {2}
    /\ SubscribedTo("news", "breaking") = {1}
    /\ notify.delivered = {2}

\* C23: when a socket of a feed opens, a wire-level subscribe is sent for
\* every channel of the feed that has a subscriber in the table.
C23_OpenReplaysTableSubscriptions ==
    [][last'.op = "open" =>
         \A k \in DOMAIN subscribers :
             k[1] = last'.feed /\ Len(subscribers[k]) > 0 =>
                 WireCount(sent', last'.feed, "subscribe", k[2]) >= 1]_vars

(***************************************************************************)
(* The claims about the connections (SpecConn).                            *)
(***************************************************************************)
\* No socket of the feed has ever opened: every closed one failed to open.
NeverOpened(f) ==
    /\ \A s \in 1..Len(sockets[f]) : sockets[f][s] # "OPEN"
    /\ failures[f] =
           Cardinality({s \in 1..Len(sockets[f]) : sockets[f][s] = "CLOSED"})

C9_StatusIsFailed ==
    \A f \in Feeds :
        NeverOpened(f) /\ failures[f] >= FeedConfig(f).maxReconnectAttempts
            => getConnectionStatus(f) = "Failed"

\* A feed has received a message, and the time since it received the last
\* one (the receipt time is the one addToBuffer stamps) exceeds the
\* threshold of 60 seconds.
SilentTooLong(f) ==
    /\ Len(buffer[f]) > 0
    /\ now - buffer[f][Len(buffer[f])].timestamp > StaleAfter

\* C17: at a health check, every feed that has been silent for more than
\* the threshold (and whose reconnect attempts are not used up) gets a
\* reconnect cycle: its socket is closed or a reconnect is scheduled, also
\* when the socket is open.
C17_StaleFeedIsRecycled ==
    [][last'.op = "health" =>
         \A f \in Feeds :
             SilentTooLong(f) /\ ~ReconnectBlocked(reconnectAttempts[f], f) =>
                 \/ timers'[f] > timers[f]
                 \/ sockets'[f] # sockets[f]]_vars

\* C20: while no socket of a feed is open, the status query does not answer
\* 'connected' for it.
C20_StatusFollowsTransport ==
    \A f \in Feeds :
        (\A s \in 1..Len(sockets[f]) : sockets[f][s] # "OPEN") =>
            getConnectionStatus(f) # "connected"

\* C19: a connect, open, close or failed attempt of one feed, also the one
\* that uses up its attempts, leaves every other feed as it was: socket
\* states, feed record (status, counters), connection entry, reconnect
\* counter, pending reconnects and buffer; and it leaves the subscriber
\* sets as they were.
C19_OtherFeedsUnaffected ==
    [][last'.op \in {"open", "close", "fail", "timer"} =>
         /\ subscribers' = subscribers
         /\ \A g \in Feeds \ {last'.feed} :
                /\ sockets'[g] = sockets[g]
                /\ feeds'[g] = feeds[g]
                /\ connections'[g] = connections[g]
                /\ reconnectAttempts'[g] = reconnectAttempts[g]
                /\ timers'[g] = timers[g]
                /\ failures'[g] = failures[g]
                /\ buffer'[g] = buffer[g]]_vars

\* C19 happens: the market feed has just failed once more than its
\* maxReconnectAttempts, while the news feed is open, has a subscriber and
\* has received and buffered a message.
C19_Witness ==
    /\ last.op = "fail"
    /\ last.feed = "market"
    /\ failures["market"] > FeedConfig("market").maxReconnectAttempts
    /\ reconnectAttempts["market"] = FeedConfig("market").maxReconnectAttempts
    /\ timers["market"] = 0
    /\ connections["news"] # 0
    /\ ReadyState("news", connections["news"]) = "OPEN"
    /\ feeds["news"].messageCount = 1
    /\ Len(buffer["news"]) = 1
    /\ SubscribedTo("news", "breaking") = {1}

\* The sockets of a feed that are not closed.
LiveSockets(f) == {s \in 1..Len(sockets[f]) : sockets[f][s] # "CLOSED"}

\* C16: starting a feed that is already running, as a second run of the
\* service's init does for every feed, creates no second socket and no
\* second feed record for it.
C16_StartIsIdempotent ==
    [][last'.op = "reinit" =>
         \A f \in Feeds :
             LiveSockets(f) # {} =>
                 /\ sockets'[f] = sockets[f]
                 /\ feeds'[f] = feeds[f]]_vars

\* The sockets of a feed that are still connecting.
ConnectingSockets(f) ==
    {s \in 1..Len(sockets[f]) : sockets[f][s] = "CONNECTING"}

\* C21: a feed has at most one socket that is not closed, and at most one
\* connection attempt or pending reconnect timer in flight.
C21_OneTransportOneAttempt ==
    \A f \in Feeds :
        /\ Cardinality(LiveSockets(f)) <= 1
        /\ Cardinality(ConnectingSockets(f)) + timers[f] <= 1

\* C22: a feed's reconnect counter goes down only in its open event, which
\* sets it to zero; a step that schedules a retry for the feed adds exactly
\* one to it, and nothing else changes it; a close or a failed attempt
\* never takes it down.
C22_CounterResetOnlyByOpen ==
    [][\A f \in Feeds :
          /\ reconnectAttempts'[f] < reconnectAttempts[f] =>
                 last'.op = "open" /\ last'.feed = f
          /\ last'.op = "open" /\ last'.feed = f => reconnectAttempts'[f] = 0
          /\ timers'[f] > timers[f] =>
                 /\ timers'[f] = timers[f] + 1
                 /\ reconnectAttempts'[f] = reconnectAttempts[f] + 1
          /\ reconnectAttempts'[f] > reconnectAttempts[f] =>
                 /\ reconnectAttempts'[f] = reconnectAttempts[f] + 1
                 /\ timers'[f] = timers[f] + 1
          /\ last'.op \in {"close", "fail"} =>
                 reconnectAttempts'[f] >= reconnectAttempts[f]]_vars

\* C22 happens: the market feed opened, which set its counter to zero, then
\* closed, which scheduled a retry and counted it.
C22_Witness ==
    /\ last.op = "close"
    /\ last.feed = "market"
    /\ reconnectAttempts["market"] = 1
    /\ timers["market"] = 1
    /\ failures["market"] = 0

\* C24: an error event of a socket that is connecting or open takes the
\* feed out of the connections and, while attempts are left, schedules a
\* reconnect, as a close event does.
C24_ErrorTriggersReconnect ==
    [][last'.op = "error" =>
         /\ connections'[last'.feed] = 0
         /\ ~ReconnectBlocked(reconnectAttempts[last'.feed], last'.feed) =>
                timers'[last'.feed] = timers[last'.feed] + 1]_vars

\* C25: while the current socket of a feed is open, the status query
\* answers 'connected' for it, also before the first message.
C25_OpenIsReported ==
    \A f \in Feeds : FeedIsOpen(f) => getConnectionStatus(f) = "connected"

\* The message count the status query reports: getFeedStats(f).messageCount
ReportedCount(fds, f) == fds[f].messageCount

\* C26: a valid message adds exactly one to its feed's message count and
\* becomes its last message, and no step takes a feed's message count down.
C26_MessageCountNeverDecreases ==
    [][(last'.op = "message" =>
           /\ ReportedCount(feeds', last'.feed) =
                  ReportedCount(feeds, last'.feed) + 1
           /\ feeds'[last'.feed].lastMessage.id = nrecv')
       /\ (\A f \in Feeds :
              ReportedCount(feeds', f) >= ReportedCount(feeds, f))]_vars

\* C27: every feed's reconnect counter is between 0 and its
\* maxReconnectAttempts.
C27_CounterWithinBounds ==
    \A f \in Feeds :
        /\ reconnectAttempts[f] >= 0
        /\ reconnectAttempts[f] <= FeedConfig(f).maxReconnectAttempts

\* C27 happens: a health check found the market feed stale and its socket
\* not open while the counter was at maxReconnectAttempts: it came to the
\* early return and scheduled nothing.
C27_Witness ==
    /\ last.op = "health"
    /\ HealthReconnects("market")
    /\ reconnectAttempts["market"] = FeedConfig("market").maxReconnectAttempts
    /\ timers["market"] = 0

\* C28: this.connections has an entry for a feed exactly when the feed's
\* current socket is open, and the close event of another socket of the
\* feed leaves the entry of the open one in place.
C28_RegistryFollowsCurrentTransport ==
    /\ [](\A f \in Feeds : connections[f] # 0 <=> FeedIsOpen(f))
    /\ [][last'.op \in {"close", "fail"} =>
            LET f == last'.feed IN
            /\ connections[f] # 0
            /\ connections[f] # last'.sock
            /\ ReadyState(f, connections[f]) = "OPEN"
            => connections'[f] = connections[f]]_vars

(***************************************************************************)
(* The claims about the buffer (SpecBuf).                                  *)
(***************************************************************************)
\* C10: no feed's buffer holds more than the cap of 1000 entries.
C10_BufferWithinCap ==
    \A f \in Feeds : Len(buffer[f]) <= maxBufferSize

\* C10 happens: the buffer is full and its oldest entries have been spliced
\* off to make room for the message just received.
C10_Witness ==
    /\ Len(buffer["market"]) = maxBufferSize
    /\ buffer["market"][1].id > 1
    /\ last.op = "message"

\* The entries of a buffer whose age is below the window of maxAge.
WithinWindow(buf) ==
    SelectSeq(buf, LAMBDA entry : entry.timestamp + maxAge > now)

\* C11: a cleaning pass leaves in every feed's buffer exactly the entries
\* whose age is below the 5-minute window, in their order: no entry of that
\* age or more stays, and no younger entry goes.
C11_CleanKeepsExactlyTheYoung ==
    [][last'.op = "clean" =>
         \A f \in Feeds : buffer'[f] = WithinWindow(buffer[f])]_vars

\* C11 happens: a cleaning pass has run at a time when the messages of the
\* initial fill had reached the window; they are gone, and a message
\* received later is still there.
C11_Witness ==
    /\ last.op = "clean"
    /\ now - StartTime >= maxAge
    /\ buffer["market"] # <<>>
    /\ buffer["market"][1].id > InitFill
    /\ now - buffer["market"][1].timestamp < maxAge

(***************************************************************************)
(* The claims about reading the buffer back (SpecGet).                     *)
(***************************************************************************)
\* The limits getBuffer is called with: the cap, and more than the cap.
BigLimits == {maxBufferSize, maxBufferSize + 1, 2 * maxBufferSize}

\* The number of messages getBuffer is to return after n messages.
Kept(n) == IF n < maxBufferSize THEN n ELSE maxBufferSize

\* C12: after n valid messages on a feed and no cleaning pass, getBuffer with
\* a limit of at least the cap returns the most recent min(n, cap) messages,
\* each once, oldest first.  (In SpecGet the n-th message received has the
\* identity n, and all of them arrive on the market feed.)
C12_GetBufferReturnsMostRecent ==
    \A L \in BigLimits :
        LET got == getBuffer("market", L) IN
        /\ Len(got) = Kept(nrecv)
        /\ \A i \in 1..Len(got) : got[i].id = nrecv - Kept(nrecv) + i

\* The limits of C29: none, a few, the cap.
SmallLimits == {0, 1, 2, maxBufferSize}

\* C29: getBuffer(feed, limit) returns at most limit entries, none for
\* limit 0, and they are the newest entries of the feed's buffer, in order.
C29_GetBufferAtMostLimit ==
    \A f \in Feeds : \A L \in SmallLimits :
        LET got == getBuffer(f, L)
            n == Len(buffer[f])
        IN  /\ Len(got) <= L
            /\ \A i \in 1..Len(got) : got[i] = buffer[f][n - Len(got) + i]

\* C12 happens: more messages than the cap have been received, and the
\* oldest one is no longer returned.
C12_Witness ==
    /\ nrecv > maxBufferSize
    /\ last.op = "message"
    /\ getBuffer("market", 2 * maxBufferSize)[1].id = nrecv - maxBufferSize + 1

(***************************************************************************)
(* The claims about the pipeline (SpecPipe).                               *)
(***************************************************************************)
\* The newest entry of a feed's buffer (an empty record's id is 0).
Newest(buf) == IF Len(buf) = 0 THEN NullMessage ELSE buf[Len(buf)]

\* Message number n of feed f has gone through the pipeline: it is the
\* newest entry of the buffer buf, and the loop position nt says that the
\* notification of those subscribed to its (feed, channel) has begun.
Buffered(buf, f, n) == Newest(buf[f]).id = n

NotificationOf(nt, f, c, n) ==
    /\ nt.phase \in {"running", "done"}
    /\ nt.msg = n
    /\ nt.atStart = SubscribedTo(f, IF c = "" THEN "default" ELSE c)

\* C13: a message that does not parse leaves the connection open and the
\* feed as it was, and every valid message, also one that arrives after it,
\* is counted, buffered and notified to the subscribers of its channel.
C13_ValidAfterMalformedIsProcessed ==
    /\ [][last'.op = "dropped" =>
            /\ sockets' = sockets
            /\ connections' = connections
            /\ feeds' = feeds
            /\ subscribers' = subscribers]_vars
    /\ [][last'.op = "message" =>
            /\ feeds'[last'.feed].messageCount =
                   feeds[last'.feed].messageCount + 1
            /\ feeds'[last'.feed].lastMessage.id = nrecv'
            /\ Buffered(buffer', last'.feed, nrecv')
            /\ NotificationOf(notify', last'.feed, last'.channel, nrecv')]_vars

\* C13 happens: the first message did not parse, the second was valid; it
\* is the one message counted and buffered, and every callback subscribed to
\* its channel has been invoked with it.
C13_Witness ==
    /\ nrecv = 2
    /\ feeds["market"].messageCount = 1
    /\ Len(buffer["market"]) = 1
    /\ buffer["market"][1].id = 2
    /\ ReadyState("market", 1) = "OPEN"
    /\ notify.phase = "done"
    /\ notify.msg = 2
    /\ notify.channel = "BTCUSDT"
    /\ notify.delivered = Callbacks

\* C14: a message that is not a valid Message, because it does not parse or
\* because it parses to something that is no message of the feed, changes
\* neither the feed record (counter, last message) nor the buffer, and no
\* notification starts for it.
C14_InvalidMessageIsDropped ==
    [][last'.op \in {"dropped", "invalid"} =>
         /\ feeds' = feeds
         /\ buffer' = buffer
         /\ notify'.phase = "idle"]_vars

\* C15: every message that parses is buffered and notified to the
\* subscribers of its channel, also when the feed's handler throws on it.
C15_HandlerFailureDoesNotSuppress ==
    [][last'.op \in {"message", "invalid", "handlerThrew"} =>
         /\ Buffered(buffer', last'.feed, nrecv')
         /\ NotificationOf(notify', last'.feed, last'.channel, nrecv')]_vars

\* C18: the messages of a feed are processed in the order of their receipt:
\* the buffer holds them in that order, a message is taken up only after the
\* notification of the one before it has ended, and a callback is invoked
\* with a message only while that message is the newest one buffered.
C18_ReceiptOrder ==
    /\ [](\A f \in Feeds : \A i \in 1..Len(buffer[f]) :
             i > 1 => buffer[f][i - 1].id < buffer[f][i].id)
    /\ [](notify.phase \in {"running", "done"} =>
             Buffered(buffer, notify.feed, notify.msg))
    /\ [][last'.op = "message" =>
             /\ notify.phase # "running"
             /\ nrecv' > nrecv
             /\ \A i \in 1..Len(buffer[last'.feed]) :
                    buffer[last'.feed][i].id < nrecv'
             /\ notify'.msg = nrecv']_vars

\* C18 happens: two valid messages were received on the market feed; both
\* are buffered, the earlier one first, and the notification of the later
\* one has ended.
C18_Witness ==
    /\ Len(buffer["market"]) = 2
    /\ buffer["market"][1].id = 1
    /\ buffer["market"][2].id = 2
    /\ feeds["market"].messageCount = 2
    /\ last.op \in {"return", "throw"}
    /\ notify.phase = "done"
    /\ notify.msg = 2

(***************************************************************************)
(* The claims about BinanceAPI (SpecBinance).                              *)
(***************************************************************************)
\* The callbacks subscribed to a stream and not unsubscribed.
BinanceSubscribers(stream) ==
    IF stream \in DOMAIN binance.subscriptions
    THEN Range(binance.subscriptions[stream])
    ELSE {}

\* C30: a message received on a stream invokes every callback that is
\* subscribed to the stream and not unsubscribed, also those added after the
\* first one, and no callback that was unsubscribed.
C30_BinanceDeliversToAllSubscribers ==
    binance.step.op = "message" =>
        binance.invoked = BinanceSubscribers(binance.step.stream)

====
